---- MODULE Spec2Model ----
(***************************************************************************)
(* Model of addressbook.py: the field validators, Record, AddressBook, the *)
(* pickle persistence adapter, the command handlers and the command loop.  *)
(*                                                                         *)
(* Representation.  A Python str (a name, a phone number, a birthday       *)
(* argument) is a sequence of one-character strings, so that its length    *)
(* and its characters can be inspected the way the regular expression and  *)
(* strptime inspect them.  A date is a record [year, month, day].  The     *)
(* book is a sequence of records in dict insertion order, with pairwise    *)
(* distinct names (the dict keys).                                         *)
(* A returned f-string is a record whose msg field is the template and     *)
(* whose other fields are the interpolated values.                         *)
(***************************************************************************)
EXTENDS Integers, Sequences, FiniteSets, TLC

VARIABLES
    book,        \* the AddressBook held by the caller: sequence of records
    file,        \* addressbook.pkl: [exists, bytes]
    pc,          \* position of main(): "stopped" or "running"
    today,       \* the date returned by the last datetime.today() call
    call,        \* the last operation called and its arguments
    result,      \* what that operation returned (or the exception it raised)
    lastAdded,   \* history: per name, the record last passed to add_record
    passed,      \* history: per name, the phones passed to add_contact
    lastClosed   \* history: the book held at the most recent close/exit

vars == <<book, file, pc, today, call, result, lastAdded, passed, lastClosed>>

----------------------------------------------------------------------------
(* Bounds of the model *)

MaxPhones == 2      \* longest phone list a record is grown to
NumYears == 3       \* today ranges over NumYears consecutive years

FirstYear == 2023   \* first year today ranges over (2024 is a leap year)

----------------------------------------------------------------------------
(* Text *)

Digits == {"0", "1", "2", "3", "4", "5", "6", "7", "8", "9"}

DigitVal(c) ==
    CASE c = "0" -> 0 [] c = "1" -> 1 [] c = "2" -> 2 [] c = "3" -> 3
      [] c = "4" -> 4 [] c = "5" -> 5 [] c = "6" -> 6 [] c = "7" -> 7
      [] c = "8" -> 8 [] c = "9" -> 9

AllDigits(s) == \A i \in 1..Len(s) : s[i] \in Digits

RECURSIVE IntOf(_)
IntOf(s) ==
    IF s = <<>> THEN 0
    ELSE 10 * IntOf(SubSeq(s, 1, Len(s) - 1)) + DigitVal(s[Len(s)])

ErrPhone == "Phone number must contain exactly 10 digits."
ErrDate == "Invalid date format. Use DD.MM.YYYY"
ErrDay == "day is out of range for month"
ErrIndex == "list index out of range"
NotFoundText == "Contact not found."

Ok(v) == [ok |-> TRUE, val |-> v]
Raise(e) == [ok |-> FALSE, err |-> e]

----------------------------------------------------------------------------
(* Calendar: what datetime.date does *)

IsLeap(y) == (y % 4 = 0) /\ ((y % 100 # 0) \/ (y % 400 = 0))

DaysInMonth(y, m) ==
    IF m = 2 THEN (IF IsLeap(y) THEN 29 ELSE 28)
    ELSE IF m \in {4, 6, 9, 11} THEN 30 ELSE 31

ValidDate(y, m, d) ==
    /\ y \in 1..9999
    /\ m \in 1..12
    /\ d \in 1..DaysInMonth(y, m)

Date(y, m, d) == [year |-> y, month |-> m, day |-> d]

DaysBeforeYear(y) ==
    (y - 1) * 365 + ((y - 1) \div 4) - ((y - 1) \div 100) + ((y - 1) \div 400)

RECURSIVE DaysBeforeMonth(_, _)
DaysBeforeMonth(y, m) ==
    IF m = 1 THEN 0 ELSE DaysBeforeMonth(y, m - 1) + DaysInMonth(y, m - 1)

\* date.toordinal()
ToOrdinal(d) == DaysBeforeYear(d.year) + DaysBeforeMonth(d.year, d.month) + d.day

\* date < date
DateLess(a, b) ==
    \/ a.year < b.year
    \/ a.year = b.year /\ a.month < b.month
    \/ a.year = b.year /\ a.month = b.month /\ a.day < b.day

\* date.replace(year=y): raises ValueError when the result is no date
replace_year(d, y) ==
    IF ValidDate(y, d.month, d.day) THEN Ok(Date(y, d.month, d.day))
    ELSE Raise(ErrDay)

\* date + timedelta(days=n), n >= 0
RECURSIVE AddDays(_, _)
AddDays(d, n) ==
    IF n = 0 THEN d
    ELSE IF d.day < DaysInMonth(d.year, d.month)
         THEN AddDays(Date(d.year, d.month, d.day + 1), n - 1)
    ELSE IF d.month < 12
         THEN AddDays(Date(d.year, d.month + 1, 1), n - 1)
    ELSE AddDays(Date(d.year + 1, 1, 1), n - 1)

----------------------------------------------------------------------------
(* Fields *)

\* Phone.__init__: re.fullmatch(r'\d{10}', value)
Phone(value) ==
    IF Len(value) = 10 /\ AllDigits(value) THEN Ok(value) ELSE Raise(ErrPhone)

\* Positions of the dots of a text
Dots(s) == {i \in 1..Len(s) : s[i] = "."}

\* Birthday.__init__: datetime.strptime(value, "%d.%m.%Y").date()
\* %d and %m take one or two digits and no zero value, %Y exactly four digits.
Birthday(value) ==
    IF Cardinality(Dots(value)) # 2 THEN Raise(ErrDate)
    ELSE LET i == CHOOSE k \in Dots(value) : \A j \in Dots(value) : k <= j
             j == CHOOSE k \in Dots(value) : \A l \in Dots(value) : l <= k
             dd == SubSeq(value, 1, i - 1)
             mm == SubSeq(value, i + 1, j - 1)
             yy == SubSeq(value, j + 1, Len(value))
         IN  IF /\ Len(dd) \in 1..2 /\ AllDigits(dd) /\ IntOf(dd) \in 1..31
                /\ Len(mm) \in 1..2 /\ AllDigits(mm) /\ IntOf(mm) \in 1..12
                /\ Len(yy) = 4 /\ AllDigits(yy)
                /\ ValidDate(IntOf(yy), IntOf(mm), IntOf(dd))
             THEN Ok(Date(IntOf(yy), IntOf(mm), IntOf(dd)))
             ELSE Raise(ErrDate)

----------------------------------------------------------------------------
(* Record *)

NoBirthday == [year |-> 0, month |-> 0, day |-> 0]   \* self.birthday = None

\* Record.__init__
Record(name) == [name |-> name, phones |-> <<>>, birthday |-> NoBirthday]

\* Mutant of Record.add_phone: a phone already in the list is not appended
Record_add_phone_unique(rec, phone_number) ==
    IF Len(phone_number) = 10 /\ AllDigits(phone_number)
    THEN Ok([rec EXCEPT !.phones =
                IF \E i \in 1..Len(rec.phones) : rec.phones[i] = phone_number
                THEN rec.phones ELSE Append(rec.phones, phone_number)])
    ELSE Raise(ErrPhone)

\* Record.add_phone
Record_add_phone(rec, phone_number) ==
    LET phone == Phone(phone_number)
    IN  IF phone.ok
        THEN Ok([rec EXCEPT !.phones = Append(rec.phones, phone.val)])
        ELSE phone

\* index of the first phone equal to v, 0 when there is none
FirstIndex(phones, v) ==
    IF \E i \in 1..Len(phones) : phones[i] = v
    THEN CHOOSE i \in 1..Len(phones) :
            phones[i] = v /\ \A j \in 1..(i - 1) : phones[j] # v
    ELSE 0

RemoveAt(s, i) == SubSeq(s, 1, i - 1) \o SubSeq(s, i + 1, Len(s))

\* Record.remove_phone
Record_remove_phone(rec, phone_number) ==
    LET i == FirstIndex(rec.phones, phone_number)
    IN  IF i > 0
        THEN [rec |-> [rec EXCEPT !.phones = RemoveAt(rec.phones, i)],
              ret |-> [msg |-> "Phone {phone_number} removed.",
                       phone_number |-> phone_number]]
        ELSE [rec |-> rec,
              ret |-> [msg |-> "Phone {phone_number} not found.",
                       phone_number |-> phone_number]]

\* Mutant of Record.edit_phone: the loop does not stop at the first match
Record_edit_phone_all(rec, old_phone, new_phone) ==
    IF \E i \in 1..Len(rec.phones) : rec.phones[i] = old_phone
    THEN [rec |-> [rec EXCEPT !.phones =
                    [i \in 1..Len(rec.phones) |->
                        IF rec.phones[i] = old_phone THEN new_phone
                        ELSE rec.phones[i]]],
          ret |-> [msg |-> "Phone {old_phone} changed to {new_phone}.",
                   old_phone |-> old_phone, new_phone |-> new_phone]]
    ELSE [rec |-> rec,
          ret |-> [msg |-> "Phone {old_phone} not found.",
                   old_phone |-> old_phone]]

\* Record.edit_phone
Record_edit_phone(rec, old_phone, new_phone) ==
    LET i == FirstIndex(rec.phones, old_phone)
    IN  IF i > 0
        THEN [rec |-> [rec EXCEPT !.phones[i] = new_phone],
              ret |-> [msg |-> "Phone {old_phone} changed to {new_phone}.",
                       old_phone |-> old_phone, new_phone |-> new_phone]]
        ELSE [rec |-> rec,
              ret |-> [msg |-> "Phone {old_phone} not found.",
                       old_phone |-> old_phone]]

\* Record.add_birthday
Record_add_birthday(rec, birthday_date) ==
    LET b == Birthday(birthday_date)
    IN  IF b.ok THEN Ok([rec EXCEPT !.birthday = b.val]) ELSE b

\* Record.days_to_birthday, with datetime.today().date() = now.
\* val is the returned number; none tells a returned None.
Record_days_to_birthday(rec, now) ==
    IF rec.birthday = NoBirthday THEN [ok |-> TRUE, none |-> TRUE, val |-> 0]
    ELSE LET thisYear == replace_year(rec.birthday, now.year)
         IN  IF ~thisYear.ok THEN thisYear
             ELSE IF DateLess(thisYear.val, now)
             THEN LET nextYear == replace_year(thisYear.val, now.year + 1)
                  IN  IF ~nextYear.ok THEN nextYear
                      ELSE [ok |-> TRUE, none |-> FALSE,
                            val |-> ToOrdinal(nextYear.val) - ToOrdinal(now)]
             ELSE [ok |-> TRUE, none |-> FALSE,
                   val |-> ToOrdinal(thisYear.val) - ToOrdinal(now)]

\* Birthday.__str__ / date.strftime("%d.%m.%Y")
DigitChar(n) ==
    CASE n = 0 -> "0" [] n = 1 -> "1" [] n = 2 -> "2" [] n = 3 -> "3"
      [] n = 4 -> "4" [] n = 5 -> "5" [] n = 6 -> "6" [] n = 7 -> "7"
      [] n = 8 -> "8" [] n = 9 -> "9"

RECURSIVE Decimal(_)
Decimal(n) ==
    IF n < 10 THEN <<DigitChar(n)>>
    ELSE Append(Decimal(n \div 10), DigitChar(n % 10))

Pad2(n) == <<DigitChar(n \div 10), DigitChar(n % 10)>>

strftime(d) == Pad2(d.day) \o <<".">> \o Pad2(d.month) \o <<".">> \o Decimal(d.year)

----------------------------------------------------------------------------
(* AddressBook(UserDict) *)

Names(b) == {b[i].name : i \in 1..Len(b)}

IndexOf(b, name) == CHOOSE i \in 1..Len(b) : b[i].name = name

\* Mutant of AddressBook.add_record: self.data.setdefault(name, record)
add_record_setdefault(b, record) ==
    [book |-> IF \E i \in 1..Len(b) : b[i].name = record.name THEN b
              ELSE Append(b, record),
     ret |-> [msg |-> "Record for {record.name.value} added.",
              name |-> record.name]]

\* AddressBook.add_record: self.data[record.name.value] = record
add_record(b, record) ==
    [book |-> IF record.name \in Names(b)
              THEN [b EXCEPT ![IndexOf(b, record.name)] = record]
              ELSE Append(b, record),
     ret |-> [msg |-> "Record for {record.name.value} added.",
              name |-> record.name]]

\* AddressBook.find: self.data.get(name, "Contact not found.")
find(b, name) ==
    IF name \in Names(b)
    THEN [found |-> TRUE, rec |-> b[IndexOf(b, name)]]
    ELSE [found |-> FALSE, msg |-> NotFoundText]

\* AddressBook.delete
delete(b, name) ==
    IF name \in Names(b)
    THEN [book |-> RemoveAt(b, IndexOf(b, name)),
          ret |-> [msg |-> "Record for {name} deleted.", name |-> name]]
    ELSE [book |-> b, ret |-> [msg |-> NotFoundText]]

\* AddressBook.get_upcoming_birthdays with datetime.today().date() = now on
\* every read of the clock during the call.  The loop over self.data.values()
\* from record i on; an exception of days_to_birthday ends the call.
RECURSIVE UpcomingFrom(_, _, _)
UpcomingFrom(b, i, now) ==
    IF i > Len(b) THEN Ok(<<>>)
    ELSE IF b[i].birthday = NoBirthday THEN UpcomingFrom(b, i + 1, now)
    ELSE LET days_until_birthday == Record_days_to_birthday(b[i], now)
             rest == UpcomingFrom(b, i + 1, now)
         IN  IF ~days_until_birthday.ok THEN days_until_birthday
             ELSE IF ~rest.ok THEN rest
             ELSE IF /\ ~days_until_birthday.none
                     /\ 0 <= days_until_birthday.val
                     /\ days_until_birthday.val <= 7
             THEN Ok(<<[name |-> b[i].name,
                        birthday |-> b[i].birthday,
                        congratulation_date |->
                            strftime(AddDays(now, days_until_birthday.val))]>>
                     \o rest.val)
             ELSE rest

get_upcoming_birthdays(b, now) == UpcomingFrom(b, 1, now)

----------------------------------------------------------------------------
(* Persistence: pickle.dump / pickle.load as a token stream.  A str is one *)
(* token, a list is its length followed by its items, a date is the four   *)
(* bytes of date.__reduce__ (year high, year low, month, day), None is a   *)
(* token of its own.                                                       *)

Tok(t, v) == [t |-> t, v |-> v]

DumpDate(d) ==
    IF d = NoBirthday THEN Tok("none", <<>>)
    ELSE Tok("date", <<d.year \div 256, d.year % 256, d.month, d.day>>)

DumpRecord(rec) ==
    <<Tok("str", rec.name), Tok("list", <<Len(rec.phones)>>)>>
        \o [i \in 1..Len(rec.phones) |-> Tok("str", rec.phones[i])]
        \o <<DumpDate(rec.birthday)>>

RECURSIVE DumpRecords(_, _)
DumpRecords(b, i) ==
    IF i > Len(b) THEN <<>> ELSE DumpRecord(b[i]) \o DumpRecords(b, i + 1)

pickle_dump(b) == <<Tok("dict", <<Len(b)>>)>> \o DumpRecords(b, 1)

LoadDate(tok) ==
    IF tok.t = "none" THEN NoBirthday
    ELSE Date(tok.v[1] * 256 + tok.v[2], tok.v[3], tok.v[4])

RECURSIVE LoadRecords(_, _, _)
LoadRecords(s, pos, n) ==
    IF n = 0 THEN <<>>
    ELSE LET k == s[pos + 1].v[1]
         IN  <<[name |-> s[pos].v,
                phones |-> [i \in 1..k |-> s[pos + 1 + i].v],
                birthday |-> LoadDate(s[pos + 2 + k])]>>
             \o LoadRecords(s, pos + 3 + k, n - 1)

pickle_load(s) == LoadRecords(s, 2, s[1].v[1])

NoFile == [exists |-> FALSE, bytes |-> <<>>]

\* Mutant of save_data: the birthdays are left out of what is written
save_data_without_birthdays(b) ==
    [exists |-> TRUE,
     bytes |-> pickle_dump([i \in 1..Len(b) |-> [b[i] EXCEPT !.birthday = NoBirthday]])]

\* save_data: open(filename, "wb"); pickle.dump(book, f)
save_data(b) == [exists |-> TRUE, bytes |-> pickle_dump(b)]

\* Mutant of load_data: every exception of pickle.load gives an empty book,
\* and the stream of a book with records is one the load fails on
load_data_fresh(f) ==
    IF f.exists /\ f.bytes[1].v[1] = 0 THEN pickle_load(f.bytes) ELSE <<>>

\* load_data: pickle.load(f), or AddressBook() on FileNotFoundError
load_data(f) == IF f.exists THEN pickle_load(f.bytes) ELSE <<>>

----------------------------------------------------------------------------
(* Command handlers.  A handler body ends by returning a string or by an   *)
(* exception; either way the book is as the body left it.                  *)

Return(b, ret) == [book |-> b, raised |-> FALSE, ret |-> ret]
Throw(b, e) == [book |-> b, raised |-> TRUE, ret |-> [msg |-> e]]

\* input_error: except Exception as e: return str(e)
input_error(r) == [book |-> r.book, raised |-> FALSE, ret |-> r.ret]

add_contact_body(args, b) ==
    IF Len(args) < 2
    THEN Return(b, [msg |-> "Please provide both name and phone number."])
    ELSE LET name == args[1]
             phone == args[2]
             record == find(b, name)
             b1 == IF ~record.found THEN add_record(b, Record(name)).book ELSE b
             message == IF ~record.found THEN [msg |-> "Contact added."]
                        ELSE [msg |-> "Contact updated."]
             i == IndexOf(b1, name)
         IN  IF phone # <<>>
             THEN LET r == Record_add_phone(b1[i], phone)
                  IN  IF r.ok THEN Return([b1 EXCEPT ![i] = r.val], message)
                      ELSE Throw(b1, r.err)
             ELSE Return(b1, message)

add_contact(args, b) == input_error(add_contact_body(args, b))

add_birthday_body(args, b) ==
    IF Len(args) < 2
    THEN Return(b, [msg |->
        "Please provide both name and birthday date in the format DD.MM.YYYY."])
    ELSE LET name == args[1]
             birthday == args[2]
             record == find(b, name)
         IN  IF ~record.found THEN Return(b, [msg |-> NotFoundText])
             ELSE LET r == Record_add_birthday(record.rec, birthday)
                      i == IndexOf(b, name)
                  IN  IF ~r.ok THEN Throw(b, r.err)
                      ELSE IF record.rec.birthday # NoBirthday
                      THEN Return([b EXCEPT ![i] = r.val],
                             [msg |-> "Birthday for {name} updated.", name |-> name])
                      ELSE Return([b EXCEPT ![i] = r.val],
                             [msg |-> "Birthday for {name} added.", name |-> name])

add_birthday(args, b) == input_error(add_birthday_body(args, b))

show_birthday_body(args, b) ==
    IF Len(args) < 1 THEN Throw(b, ErrIndex)
    ELSE LET name == args[1]
             record == find(b, name)
         IN  IF ~record.found THEN Return(b, [msg |-> record.msg])
             ELSE IF record.rec.birthday # NoBirthday
             THEN Return(b, [msg |-> "{name}'s birthday: {record.birthday}",
                             name |-> name,
                             birthday |-> strftime(record.rec.birthday)])
             ELSE Return(b, [msg |-> "{name} has no birthday set.", name |-> name])

show_birthday(args, b) == input_error(show_birthday_body(args, b))

birthdays_body(args, b, now) ==
    LET upcoming == get_upcoming_birthdays(b, now)
    IN  IF ~upcoming.ok THEN Throw(b, upcoming.err)
        ELSE IF upcoming.val = <<>>
        THEN Return(b, [msg |-> "No upcoming birthdays."])
        ELSE Return(b, [msg |-> "{item['name']} - {item['congratulation_date']}",
                        lines |-> [i \in 1..Len(upcoming.val) |->
                            [name |-> upcoming.val[i].name,
                             congratulation_date |->
                                 upcoming.val[i].congratulation_date]]])

birthdays(args, b, now) == input_error(birthdays_body(args, b, now))

\* Mutant of change_contact: the result of find is used without the check
change_contact_body_unchecked(args, b) ==
    IF Len(args) < 3
    THEN Return(b, [msg |->
        "Please provide name, old phone number, and new phone number."])
    ELSE LET record == find(b, args[1])
         IN  IF ~record.found
             THEN Throw(b, "'str' object has no attribute 'edit_phone'")
             ELSE LET r == Record_edit_phone(record.rec, args[2], args[3])
                  IN  Return([b EXCEPT ![IndexOf(b, args[1])] = r.rec], r.ret)

change_contact_body(args, b) ==
    IF Len(args) < 3
    THEN Return(b, [msg |->
        "Please provide name, old phone number, and new phone number."])
    ELSE LET name == args[1]
             old_phone == args[2]
             new_phone == args[3]
             record == find(b, name)
         IN  IF ~record.found THEN Return(b, [msg |-> record.msg])
             ELSE LET r == Record_edit_phone(record.rec, old_phone, new_phone)
                  IN  Return([b EXCEPT ![IndexOf(b, name)] = r.rec], r.ret)

change_contact(args, b) == input_error(change_contact_body(args, b))

show_phone_body(args, b) ==
    IF Len(args) < 1 THEN Throw(b, ErrIndex)
    ELSE LET name == args[1]
             record == find(b, name)
         IN  IF ~record.found THEN Return(b, [msg |-> record.msg])
             ELSE Return(b, [msg |-> "{name}'s phones: {', '.join(...)}",
                             name |-> name, phones |-> record.rec.phones])

show_phone(args, b) == input_error(show_phone_body(args, b))

\* Record.__str__
Record_str(rec) ==
    [name |-> rec.name, phones |-> rec.phones,
     birthday |-> IF rec.birthday # NoBirthday THEN strftime(rec.birthday)
                  ELSE <<>>]

show_all_body(args, b) ==
    IF b # <<>>
    THEN Return(b, [msg |-> "{record}", lines |-> [i \in 1..Len(b) |-> Record_str(b[i])]])
    ELSE Return(b, [msg |-> "No contacts added yet"])

show_all(args, b) == input_error(show_all_body(args, b))

----------------------------------------------------------------------------
(* Inputs *)

Alice == <<"A", "l", "i", "c", "e">>
Bob == <<"B", "o", "b">>
AllNames == {Alice, Bob}

P1 == <<"0", "1", "2", "3", "4", "5", "6", "7", "8", "9">>
P2 == <<"9", "8", "7", "6", "5", "4", "3", "2", "1", "0">>
Short == <<"1", "2", "3">>
Alpha == <<"0", "1", "2", "3", "4", "a", "b", "c", "d", "e">>
Empty == <<>>

BLeap == <<"2", "9", ".", "0", "2", ".", "2", "0", "0", "0">>
BJan == <<"0", "3", ".", "0", "1", ".", "1", "9", "9", "0">>
BFeb == <<"2", "8", ".", "0", "2", ".", "1", "9", "9", "9">>
BDec == <<"3", "1", ".", "1", "2", ".", "1", "9", "8", "5">>
BApr31 == <<"3", "1", ".", "0", "4", ".", "1", "9", "9", "0">>
BIso == <<"1", "9", "9", "0", "-", "0", "1", "-", "0", "3">>

\* every date of the years FirstYear .. FirstYear + NumYears - 1
TodayDates ==
    {Date(y, m, d) : <<y, m, d>> \in
        {t \in (FirstYear..(FirstYear + NumYears - 1)) \X (1..12) \X (1..31) :
            ValidDate(t[1], t[2], t[3])}}

----------------------------------------------------------------------------
(* State *)

NoCall == [op |-> "none", args |-> <<>>]
NoResult == [msg |-> "none"]
NeverAdded == [n \in AllNames |-> [present |-> FALSE, rec |-> Record(n)]]
NothingPassed == [n \in AllNames |-> <<>>]
NeverClosed == [saved |-> FALSE, book |-> <<>>]

InitWith(b, now) ==
    /\ book = b
    /\ file = NoFile
    /\ pc = "stopped"
    /\ today = now
    /\ call = NoCall
    /\ result = NoResult
    /\ lastAdded = NeverAdded
    /\ passed = NothingPassed
    /\ lastClosed = NeverClosed

\* a handler or method was called with args and ended with outcome out
Called(op, args, out) ==
    /\ book' = out.book
    /\ call' = [op |-> op, args |-> args]
    /\ result' = out.ret

\* the record the call is about does not outgrow the model
Room(name) ==
    name \in Names(book) => Len(book[IndexOf(book, name)].phones) < MaxPhones

----------------------------------------------------------------------------
(* The handlers and the methods, called on the book by any caller *)

DoAddContact(args) ==
    /\ Len(args) >= 2 => Room(args[1])
    /\ Called("add_contact", args, add_contact(args, book))

DoChangeContact(args) == Called("change_contact", args, change_contact(args, book))
DoShowPhone(args) == Called("show_phone", args, show_phone(args, book))
DoShowAll(args) == Called("show_all", args, show_all(args, book))
DoAddBirthday(args) == Called("add_birthday", args, add_birthday(args, book))
DoShowBirthday(args) == Called("show_birthday", args, show_birthday(args, book))
DoBirthdays(args) == Called("birthdays", args, birthdays(args, book, today))

\* record.add_phone(phone) on the record stored under name
DoRecAddPhone(name, phone) ==
    /\ name \in Names(book)
    /\ Room(name)
    /\ LET i == IndexOf(book, name)
           r == Record_add_phone(book[i], phone)
       IN  Called("Record.add_phone", <<name, phone>>,
                  IF r.ok THEN [book |-> [book EXCEPT ![i] = r.val],
                                ret |-> [msg |-> "None"]]
                  ELSE [book |-> book, ret |-> [msg |-> r.err, raised |-> TRUE]])

DoRecRemovePhone(name, phone) ==
    /\ name \in Names(book)
    /\ LET i == IndexOf(book, name)
           r == Record_remove_phone(book[i], phone)
       IN  Called("Record.remove_phone", <<name, phone>>,
                  [book |-> [book EXCEPT ![i] = r.rec], ret |-> r.ret])

DoRecEditPhone(name, old, new) ==
    /\ name \in Names(book)
    /\ LET i == IndexOf(book, name)
           r == Record_edit_phone(book[i], old, new)
       IN  Called("Record.edit_phone", <<name, old, new>>,
                  [book |-> [book EXCEPT ![i] = r.rec], ret |-> r.ret])

DoRecAddBirthday(name, text) ==
    /\ name \in Names(book)
    /\ LET i == IndexOf(book, name)
           r == Record_add_birthday(book[i], text)
       IN  Called("Record.add_birthday", <<name, text>>,
                  IF r.ok THEN [book |-> [book EXCEPT ![i] = r.val],
                                ret |-> [msg |-> "None"]]
                  ELSE [book |-> book, ret |-> [msg |-> r.err, raised |-> TRUE]])

DoDaysToBirthday(name) ==
    /\ name \in Names(book)
    /\ LET r == Record_days_to_birthday(book[IndexOf(book, name)], today)
       IN  Called("Record.days_to_birthday", <<name>>,
                  [book |-> book,
                   ret |-> IF ~r.ok THEN [msg |-> r.err, raised |-> TRUE]
                           ELSE IF r.none THEN [msg |-> "None"]
                           ELSE [msg |-> "int", val |-> r.val]])

DoGetUpcomingBirthdays ==
    LET r == get_upcoming_birthdays(book, today)
    IN  Called("AddressBook.get_upcoming_birthdays", <<>>,
               [book |-> book,
                ret |-> IF ~r.ok THEN [msg |-> r.err, raised |-> TRUE]
                        ELSE [msg |-> "list", val |-> r.val]])

DoAddRecord(record) ==
    Called("AddressBook.add_record", <<record.name>>, add_record(book, record))

DoFind(name) ==
    LET r == find(book, name)
    IN  Called("AddressBook.find", <<name>>,
               [book |-> book,
                ret |-> IF r.found THEN [msg |-> "Record", rec |-> r.rec]
                        ELSE [msg |-> r.msg]])

DoDelete(name) == Called("AddressBook.delete", <<name>>, delete(book, name))

----------------------------------------------------------------------------
(* SpecOps: the handlers and the Record and AddressBook methods applied in *)
(* any order to a book that starts empty, on one day.                      *)

OpsDay == Date(FirstYear, 12, 30)

OpsAddArgs ==
    {<<>>, <<Alice>>} \cup {<<n, p>> : n \in AllNames, p \in {P1, Short, Empty}}
OpsChangeArgs ==
    {<<Alice, P1>>}
        \cup {<<n, o, w>> : n \in AllNames, o \in {P1, Alpha}, w \in {P1, Alpha}}
OpsNameArgs == {<<>>} \cup {<<n>> : n \in AllNames}
OpsBirthdayArgs ==
    {<<Alice>>} \cup {<<n, t>> : n \in AllNames, t \in {BJan, BApr31}}

OpsFrame == UNCHANGED <<file, pc, today, lastAdded, passed, lastClosed>>

AddContact == (\E args \in OpsAddArgs : DoAddContact(args)) /\ OpsFrame
ChangeContact == (\E args \in OpsChangeArgs : DoChangeContact(args)) /\ OpsFrame
ShowPhone == (\E args \in OpsNameArgs : DoShowPhone(args)) /\ OpsFrame
ShowAll == DoShowAll(<<>>) /\ OpsFrame
AddBirthday == (\E args \in OpsBirthdayArgs : DoAddBirthday(args)) /\ OpsFrame
ShowBirthday == (\E args \in OpsNameArgs : DoShowBirthday(args)) /\ OpsFrame
Birthdays == DoBirthdays(<<>>) /\ OpsFrame
RecAddPhone ==
    (\E n \in AllNames, p \in {P1, Short} : DoRecAddPhone(n, p)) /\ OpsFrame
RecRemovePhone ==
    (\E n \in AllNames, p \in {P1, Alpha} : DoRecRemovePhone(n, p)) /\ OpsFrame
RecEditPhone ==
    (\E n \in AllNames, o \in {P1, Alpha}, w \in {P1, Alpha} :
        DoRecEditPhone(n, o, w)) /\ OpsFrame
RecAddBirthday ==
    (\E n \in AllNames, t \in {BJan, BIso} : DoRecAddBirthday(n, t)) /\ OpsFrame
DaysToBirthday == (\E n \in AllNames : DoDaysToBirthday(n)) /\ OpsFrame
GetUpcomingBirthdays == DoGetUpcomingBirthdays /\ OpsFrame
AddRecord == (\E n \in AllNames : DoAddRecord(Record(n))) /\ OpsFrame
Find == (\E n \in AllNames : DoFind(n)) /\ OpsFrame
Delete == (\E n \in AllNames : DoDelete(n)) /\ OpsFrame

InitOps == InitWith(<<>>, OpsDay)

NextOps ==
    \/ AddContact \/ ChangeContact \/ ShowPhone \/ ShowAll
    \/ AddBirthday \/ ShowBirthday \/ Birthdays
    \/ RecAddPhone \/ RecRemovePhone \/ RecEditPhone \/ RecAddBirthday
    \/ DaysToBirthday \/ GetUpcomingBirthdays
    \/ AddRecord \/ Find \/ Delete

SpecOps == InitOps /\ [][NextOps]_vars

----------------------------------------------------------------------------
(* Claims checked under SpecOps *)

TenDigits(p) == Len(p) = 10 /\ \A k \in 1..Len(p) : p[k] \in Digits

PhonesOf(b, name) == b[IndexOf(b, name)].phones
BirthdayOf(b, name) == b[IndexOf(b, name)].birthday

\* C1: after any sequence of add_contact, change_contact, add_phone and
\* remove_phone operations, every phone stored in every record of the book
\* is a string of exactly 10 decimal digits.
C1_EveryPhoneTenDigits ==
    \A i \in 1..Len(book) : \A j \in 1..Len(book[i].phones) :
        TenDigits(book[i].phones[j])

\* C4: load_data applied to the file written by save_data yields a book with
\* the same set of names and, for every name, the same phone sequence in the
\* same order and the same birthday (or absence of one).
C4_RoundTrip ==
    LET loaded == load_data(save_data(book))
    IN  /\ Names(loaded) = Names(book)
        /\ Len(loaded) = Len(book)
        /\ \A n \in Names(book) :
            /\ PhonesOf(loaded, n) = PhonesOf(book, n)
            /\ BirthdayOf(loaded, n) = BirthdayOf(book, n)

\* a book of two records, the first with two different phones (one of them
\* no longer a valid number) and a birthday, the second with neither, is
\* saved and loaded back unchanged
C4_Witness ==
    /\ Len(book) = 2
    /\ book[1].phones = <<Alpha, P1>>
    /\ book[1].birthday = Date(1990, 1, 3)
    /\ book[2].phones = <<>>
    /\ book[2].birthday = NoBirthday
    /\ load_data(save_data(book)) = book

LookupOps == {"change_contact", "show_phone", "add_birthday", "show_birthday"}

Enough(op) == IF op = "change_contact" THEN 3
              ELSE IF op = "add_birthday" THEN 2 ELSE 1

\* C7: each of change_contact, show_phone, add_birthday and show_birthday
\* called with enough arguments and a name that is not a key of the book
\* returns "Contact not found." and leaves the book unchanged.
C7_MissReturnsNotFound ==
    [][(/\ call'.op \in LookupOps
        /\ Len(call'.args) >= Enough(call'.op)
        /\ call'.args[1] \notin Names(book))
       => (result'.msg = NotFoundText /\ book' = book)]_vars

\* add_birthday for Bob, with a birthday that is no date, on a book that
\* holds only Alice, has returned "Contact not found."
C7_Witness ==
    /\ call.op = "add_birthday"
    /\ call.args = <<Bob, BApr31>>
    /\ Names(book) = {Alice}
    /\ result.msg = NotFoundText

\* C9: whenever add_contact returns "Phone number must contain exactly 10
\* digits." the address book is left unchanged, both when the name was
\* already in the book and when it was not.
C9_RejectedAddLeavesBook ==
    [][(call'.op = "add_contact" /\ result'.msg = ErrPhone) => book' = book]_vars

\* C10: edit_phone(old, new) on a record whose phone list contains old
\* replaces the first phone equal to old with new, leaves the length, the
\* order and every other phone unchanged and returns the changed status;
\* when no phone equals old it returns the not-found status and leaves the
\* phone list unchanged.
C10_EditPhoneFirstOnly ==
    [][call'.op = "Record.edit_phone" =>
        LET name == call'.args[1]
            old == call'.args[2]
            new == call'.args[3]
            before == PhonesOf(book, name)
            after == PhonesOf(book', name)
            hits == {i \in 1..Len(before) : before[i] = old}
        IN  /\ Len(after) = Len(before)
            /\ hits = {} =>
                /\ after = before
                /\ result'.msg = "Phone {old_phone} not found."
            /\ hits # {} =>
                /\ result'.msg = "Phone {old_phone} changed to {new_phone}."
                /\ \E i \in hits :
                    /\ \A j \in hits : i <= j
                    /\ after[i] = new
                    /\ \A j \in (1..Len(before)) \ {i} : after[j] = before[j]
      ]_vars

\* edit_phone(P1, Alpha) has returned the changed status and left the list
\* <<Alpha, P1>>: the list was <<P1, P1>>, and the later duplicate is kept
C10_Witness ==
    /\ call.op = "Record.edit_phone"
    /\ call.args = <<Alice, P1, Alpha>>
    /\ result.msg = "Phone {old_phone} changed to {new_phone}."
    /\ PhonesOf(book, Alice) = <<Alpha, P1>>

----------------------------------------------------------------------------
(* SpecDates: days_to_birthday, get_upcoming_birthdays and birthdays on    *)
(* books with birthdays, on every day of NumYears years.                   *)

WithBirthday(rec, text) == Record_add_birthday(rec, text).val

AliceByBirthday ==
    {Record(Alice)} \cup {WithBirthday(Record(Alice), t) : t \in {BLeap, BJan, BFeb, BDec}}
BobByBirthday == {WithBirthday(Record(Bob), BJan)}

DateBooks ==
    {<<a>> : a \in AliceByBirthday}
        \cup {<<a, b>> : a \in AliceByBirthday, b \in BobByBirthday}
        \cup {<<b, a>> : a \in AliceByBirthday, b \in BobByBirthday}

InitDates == \E b \in DateBooks, now \in TodayDates : InitWith(b, now)

NextDates == DaysToBirthday \/ GetUpcomingBirthdays \/ Birthdays

SpecDates == InitDates /\ [][NextDates]_vars

\* C2: days_to_birthday returns None when the record has no birthday, and
\* otherwise an integer in [0, 366] (0 when the birthday's month and day
\* equal today's), for every stored birthday including 29 February.
C2_DaysInRange ==
    call.op = "Record.days_to_birthday" =>
        LET rec == book[IndexOf(book, call.args[1])]
        IN  IF rec.birthday = NoBirthday THEN result.msg = "None"
            ELSE /\ result.msg = "int"
                 /\ result.val \in 0..366
                 /\ (rec.birthday.month = today.month /\ rec.birthday.day = today.day)
                        => result.val = 0

\* days from today to the next day whose month and day are the birthday's,
\* when there is one within a week
SameDay(d, b) == d.month = b.month /\ d.day = b.day
WithinWeek(rec) ==
    rec.birthday # NoBirthday /\ \E k \in 0..7 : SameDay(AddDays(today, k), rec.birthday)
DaysUntil(rec) ==
    CHOOSE k \in 0..7 :
        /\ SameDay(AddDays(today, k), rec.birthday)
        /\ \A j \in 0..(k - 1) : ~SameDay(AddDays(today, j), rec.birthday)

\* C3: get_upcoming_birthdays returns exactly one entry for each record that
\* has a birthday whose next occurrence is between 0 and 7 days from today
\* inclusive, and no entry for any other record; the entries are in book
\* insertion order and each congratulation_date is today plus the day count.
C3_UpcomingExact ==
    call.op = "AddressBook.get_upcoming_birthdays" =>
        LET wanted == SelectSeq(book, WithinWeek)
        IN  /\ result.msg = "list"
            /\ Len(result.val) = Len(wanted)
            /\ \A i \in 1..Len(wanted) :
                /\ result.val[i].name = wanted[i].name
                /\ Birthday(result.val[i].congratulation_date).ok
                /\ ToOrdinal(Birthday(result.val[i].congratulation_date).val)
                       = ToOrdinal(today) + DaysUntil(wanted[i])

----------------------------------------------------------------------------
(* SpecBook: add_record, find and delete in any order, with the history of *)
(* the record last added under each name.                                  *)

WithPhone(rec, p) == Record_add_phone(rec, p).val

BookRecords ==
    UNION {{Record(n),
            WithPhone(Record(n), P1),
            WithPhone(Record(n), P2),
            WithBirthday(WithPhone(WithPhone(Record(n), P1), P2), BJan)} :
           n \in AllNames}

BookFrame == UNCHANGED <<file, pc, today, passed, lastClosed>>

BookAddRecord ==
    \E r \in BookRecords :
        /\ DoAddRecord(r)
        /\ lastAdded' = [lastAdded EXCEPT ![r.name] = [present |-> TRUE, rec |-> r]]
        /\ BookFrame

BookDelete ==
    \E n \in AllNames :
        /\ DoDelete(n)
        /\ lastAdded' = [lastAdded EXCEPT ![n] = [present |-> FALSE, rec |-> Record(n)]]
        /\ BookFrame

BookFind == (\E n \in AllNames : DoFind(n)) /\ UNCHANGED lastAdded /\ BookFrame

NextBook == BookAddRecord \/ BookDelete \/ BookFind

SpecBook == InitOps /\ [][NextBook]_vars

\* C5: find(name) returns the record most recently passed to add_record
\* under that name if that name has not been deleted since, and the "Contact
\* not found." sentinel otherwise; delete on a name not in the book returns
\* "Contact not found." and leaves the book unchanged, and delete on a
\* present name removes only that key.
C5_FindAndDelete ==
    /\ [](\A n \in AllNames :
            LET r == find(book, n)
            IN  IF lastAdded[n].present
                THEN r.found /\ r.rec = lastAdded[n].rec
                ELSE ~r.found /\ r.msg = NotFoundText)
    /\ [](call.op = "AddressBook.find" =>
            IF lastAdded[call.args[1]].present
            THEN result.msg = "Record" /\ result.rec = lastAdded[call.args[1]].rec
            ELSE result.msg = NotFoundText)
    /\ [][call'.op = "AddressBook.delete" =>
            LET n == call'.args[1]
            IN  IF n \in Names(book)
                THEN /\ result'.msg = "Record for {name} deleted."
                     /\ Names(book') = Names(book) \ {n}
                     /\ \A m \in Names(book') : find(book', m) = find(book, m)
                ELSE result'.msg = NotFoundText /\ book' = book
         ]_vars

\* delete(Alice) has removed Alice from a book that held Alice and Bob, and
\* find(Bob) still yields the record last added as Bob
C5_Witness ==
    /\ call.op = "AddressBook.delete"
    /\ call.args = <<Alice>>
    /\ result.msg = "Record for {name} deleted."
    /\ Names(book) = {Bob}
    /\ lastAdded[Bob].rec.phones = <<P1, P2>>
    /\ find(book, Bob).rec = lastAdded[Bob].rec
    /\ ~find(book, Alice).found

----------------------------------------------------------------------------
(* SpecAdd: add_contact called with valid phones only, on a book that      *)
(* starts empty, with the history of the phones passed for each name.      *)

P3 == <<"5", "5", "5", "0", "0", "0", "1", "1", "1", "2">>

AddValid ==
    \E n \in AllNames, p \in {P1, P2, P3} :
        /\ DoAddContact(<<n, p>>)
        /\ passed' = [passed EXCEPT ![n] = Append(@, p)]
        /\ UNCHANGED <<file, pc, today, lastAdded, lastClosed>>

NextAdd == AddValid

SpecAdd == InitOps /\ [][NextAdd]_vars

\* C6: for any sequence of add_contact calls with valid 10-digit phones, the
\* first call for a name not in the book returns "Contact added.", every
\* later call for that name returns "Contact updated.", and the record's
\* phone list equals the phones passed for that name in call order.
C6_AddContactAppends ==
    /\ [](\A n \in AllNames :
            IF passed[n] = <<>> THEN n \notin Names(book)
            ELSE n \in Names(book) /\ PhonesOf(book, n) = passed[n])
    /\ [][call'.op = "add_contact" =>
            result'.msg = IF passed[call'.args[1]] = <<>> THEN "Contact added."
                          ELSE "Contact updated."
         ]_vars

\* the second add_contact for Alice with the same phone has returned
\* "Contact updated." and the phone is stored twice
C6_Witness ==
    /\ call.op = "add_contact"
    /\ call.args = <<Alice, P1>>
    /\ result.msg = "Contact updated."
    /\ passed[Alice] = <<P1, P1>>
    /\ PhonesOf(book, Alice) = <<P1, P1>>

----------------------------------------------------------------------------
(* Spec: main().  A session loads the book, runs commands and ends by      *)
(* close/exit, which saves, or by an exception out of input(), which does  *)
(* not.  Sessions follow one another; book is the book of the running      *)
(* session and is empty while none runs.                                   *)

MainFrame == UNCHANGED <<file, pc, today, lastAdded, passed, lastClosed>>

\* book = load_data(); print("Welcome to the assistant bot!")
Start ==
    /\ pc = "stopped"
    /\ pc' = "running"
    /\ book' = load_data(file)
    /\ call' = [op |-> "main", args |-> <<>>]
    /\ result' = [msg |-> "Welcome to the assistant bot!"]
    /\ UNCHANGED <<file, today, lastAdded, passed, lastClosed>>

CmdAdd ==
    /\ pc = "running"
    /\ \E args \in {<<Alice>>, <<Alice, P1>>, <<Bob, Short>>} : DoAddContact(args)
    /\ MainFrame

CmdChange ==
    /\ pc = "running"
    /\ \E args \in {<<Alice, P1>>, <<Alice, P1, Alpha>>, <<Bob, P1, Alpha>>} :
        DoChangeContact(args)
    /\ MainFrame

CmdPhone ==
    /\ pc = "running"
    /\ \E args \in {<<>>, <<Alice>>, <<Bob>>} : DoShowPhone(args)
    /\ MainFrame

CmdAll == pc = "running" /\ DoShowAll(<<>>) /\ MainFrame

CmdAddBirthday ==
    /\ pc = "running"
    /\ \E args \in {<<Alice, BJan>>, <<Bob, BApr31>>} : DoAddBirthday(args)
    /\ MainFrame

CmdShowBirthday ==
    /\ pc = "running"
    /\ \E args \in {<<Alice>>, <<Bob>>} : DoShowBirthday(args)
    /\ MainFrame

CmdBirthdays == pc = "running" /\ DoBirthdays(<<>>) /\ MainFrame

\* hello, an unknown command, an empty line
CmdOther ==
    /\ pc = "running"
    /\ \E r \in {[op |-> "hello", msg |-> "How can I help you?"],
                 [op |-> "", msg |-> "Error: Please enter a command."],
                 [op |-> "?", msg |-> "Invalid command."]} :
        /\ call' = [op |-> r.op, args |-> <<>>]
        /\ result' = [msg |-> r.msg]
    /\ UNCHANGED book
    /\ MainFrame

\* close / exit: save_data(book); print("Good bye!"); break
CmdClose ==
    /\ pc = "running"
    /\ file' = save_data(book)
    /\ lastClosed' = [saved |-> TRUE, book |-> book]
    /\ pc' = "stopped"
    /\ book' = <<>>
    /\ call' = [op |-> "close", args |-> <<>>]
    /\ result' = [msg |-> "Good bye!"]
    /\ UNCHANGED <<today, lastAdded, passed>>

\* input() raises (end of input, interrupt): the process ends without saving
Kill ==
    /\ pc = "running"
    /\ pc' = "stopped"
    /\ book' = <<>>
    /\ call' = [op |-> "input", args |-> <<>>]
    /\ result' = [msg |-> "EOFError", raised |-> TRUE]
    /\ UNCHANGED <<file, today, lastAdded, passed, lastClosed>>

Init == InitOps

Next ==
    \/ Start \/ CmdAdd \/ CmdChange \/ CmdPhone \/ CmdAll \/ CmdAddBirthday
    \/ CmdShowBirthday \/ CmdBirthdays \/ CmdOther \/ CmdClose \/ Kill

Spec == Init /\ [][Next]_vars

\* C8: the book a session starts with is empty when no file has been saved
\* yet and otherwise equals the book held at the most recent close/exit
\* command of an earlier session; the persisted file is written only by
\* close/exit, so every other command leaves it unchanged.
C8_SessionStartsFromLastClose ==
    /\ []((pc = "running" /\ call.op = "main") =>
            book = IF lastClosed.saved THEN lastClosed.book ELSE <<>>)
    /\ [][file' # file => call'.op = "close"]_vars

\* a session has started with the two-record book an earlier session closed
\* with
C8_Witness ==
    /\ pc = "running"
    /\ call.op = "main"
    /\ lastClosed.saved
    /\ Len(book) = 2
    /\ book[2].phones = <<Alpha, P1>>
    /\ book[2].birthday # NoBirthday
    /\ book = lastClosed.book

====
